---- MODULE Spec2Model ----
(***************************************************************************)
(* Step Tracker API (src/backend/main.py): a FastAPI application over a    *)
(* document store.  The state is the store handle `db`, the two            *)
(* collections "steplog" and "user", the store's identifier source, and    *)
(* the last request / store call / response exchanged.  Every HTTP route   *)
(* is one action; a handler runs to completion (it makes one store call).  *)
(***************************************************************************)
EXTENDS Integers, Sequences, FiniteSets, TLC

VARIABLES db, steplog, users, nextId, request, storeCall, response

vars == <<db, steplog, users, nextId, request, storeCall, response>>

----------------------------------------------------------------------------
(* Bounds of the model *)

MaxDocs == 2
MaxUserDocs == 1
MaxDate == 2
MaxSteps == 1
MaxLimit == 2
MaxErrLen == 52
MaxExtraColls == 11

(* Program constants *)

ErrTrunc == 50
CollCap == 10
NoDate == 0

----------------------------------------------------------------------------
(* Value domains *)

UserNames == {"alice", "bob"}
NoUser == "<None>"
NoNote == "<None>"
Dates == 1..MaxDate
StepCounts == 0..MaxSteps
UserQueryValues == UserNames \cup {NoUser, ""}
DateQueryValues == Dates \cup {NoDate}
ListLimits == {1, MaxLimit}
LeaderLimits == 0..MaxLimit
UserPayloads == {"profile"}

EmptyDict == [k \in {} |-> 0]

Min(a, b) == IF a < b THEN a ELSE b

Take(s, n) == SubSeq(s, 1, Min(n, Len(s)))

RECURSIVE SumSeq(_)
SumSeq(s) == IF s = <<>> THEN 0 ELSE Head(s) + SumSeq(Tail(s))

(* Python truthiness of the query parameters: None and "" are falsy; a     *)
(* date object is always truthy.                                           *)
TruthyStr(u) == u # NoUser /\ u # ""
TruthyDate(d) == d # NoDate

----------------------------------------------------------------------------
(* Validation layer: request bodies as they arrive, before parsing.        *)
(* `present` are the JSON keys sent, `wrong` the keys whose value has the  *)
(* wrong JSON type.                                                        *)

RequiredStepLog == {"user", "steps", "date"}

AllStepLogKeys == {"user", "steps", "date", "note"}

Raw(p, w, u, s, d) ==
    [present |-> p, wrong |-> w, user |-> u, steps |-> s, date |-> d, note |-> "walk"]

(* Submissions the validation layer rejects: a required key missing, a    *)
(* value of the wrong type, an empty user, a negative step count.         *)
MalformedStepLogs ==
    { Raw(AllStepLogKeys \ {k}, {}, "alice", 1, 1) : k \in RequiredStepLog }
    \cup { Raw(AllStepLogKeys, {k}, "alice", 1, 1) : k \in AllStepLogKeys }
    \cup { Raw(AllStepLogKeys, {}, "", 1, 1), Raw(AllStepLogKeys, {}, "alice", -1, 1) }

StepLogValid(b) ==
    /\ RequiredStepLog \subseteq b.present
    /\ b.wrong \cap b.present = {}
    /\ b.user # ""
    /\ b.steps >= 0

StepLog(b) ==
    [user |-> b.user, steps |-> b.steps, date |-> b.date,
     note |-> IF "note" \in b.present THEN b.note ELSE NoNote]

RawUsers == { [valid |-> v, payload |-> p] : v \in BOOLEAN, p \in UserPayloads }

UserValid(b) == b.valid

User(b) == [payload |-> b.payload]

----------------------------------------------------------------------------
(* Document store adapter *)

(* create_document: the store assigns a fresh identifier and appends.      *)
NewDoc(payload, id) == [k \in DOMAIN payload \cup {"_id"} |->
                          IF k = "_id" THEN id ELSE payload[k]]

(* str(ObjectId) *)
IdStr(id) == ToString(id)

(* a date condition with exclusive bounds *)
DateCond_Exclusive(d, c) ==
    /\ ("$gte" \in DOMAIN c => d > c["$gte"])
    /\ ("$lte" \in DOMAIN c => d < c["$lte"])

DateCond(d, c) ==
    /\ ("$gte" \in DOMAIN c => d >= c["$gte"])
    /\ ("$lte" \in DOMAIN c => d <= c["$lte"])

(* A store filter: every key of the filter constrains the document.        *)
Matches(doc, q) ==
    \A k \in DOMAIN q :
        IF k = "date" THEN DateCond(doc.date, q[k]) ELSE doc[k] = q[k]

(* get_documents: the matching documents in store order, at most limit.    *)
get_documents(coll, q, limit) ==
    Take(SelectSeq(coll, LAMBDA d : Matches(d, q)), limit)

----------------------------------------------------------------------------
(* Responses *)

NoRequest == [op |-> "none"]
NoCall == [kind |-> "none"]

ConfigError(op) ==
    [op |-> op, status |-> 500, detail |-> "Database not configured", body |-> <<>>]
ValidationError(op) ==
    [op |-> op, status |-> 422, detail |-> "validation error", body |-> <<>>]
ServerError(op) ==
    [op |-> op, status |-> 500, detail |-> "Internal Server Error", body |-> <<>>]
Ok(op, body) ==
    [op |-> op, status |-> 200, detail |-> "", body |-> body]

TypeOK ==
    /\ db \in BOOLEAN
    /\ Len(steplog) <= MaxDocs
    /\ Len(users) <= MaxUserDocs
    /\ nextId = Len(steplog) + Len(users) + 1

Init ==
    /\ db \in BOOLEAN
    /\ steplog = <<>>
    /\ users = <<>>
    /\ nextId = 1
    /\ request = NoRequest
    /\ storeCall = NoCall
    /\ response = [op |-> "none", status |-> 0, detail |-> "", body |-> <<>>]

----------------------------------------------------------------------------
(* GET / *)
read_root ==
    /\ request' = [op |-> "root"]
    /\ storeCall' = NoCall
    /\ response' = Ok("root", [message |-> "Step Tracker Backend is running"])
    /\ UNCHANGED <<db, steplog, users, nextId>>

(* add_steps without the check of the store handle *)
add_steps_NoHandleCheck(body, fail) ==
    /\ Len(steplog) < MaxDocs
    /\ request' = [op |-> "add_steps", body |-> body]
    /\ IF ~StepLogValid(body)
         THEN /\ storeCall' = NoCall
              /\ response' = ValidationError("add_steps")
              /\ UNCHANGED <<steplog, nextId>>
       ELSE /\ storeCall' = [kind |-> "insert", coll |-> "steplog"]
            /\ IF fail
                 THEN /\ response' = ServerError("add_steps")
                      /\ UNCHANGED <<steplog, nextId>>
                 ELSE /\ steplog' = Append(steplog, NewDoc(StepLog(body), nextId))
                      /\ nextId' = nextId + 1
                      /\ response' = Ok("add_steps", [id |-> IdStr(nextId)])
    /\ UNCHANGED <<db, users>>

(* add_steps that keeps one record for a user and date *)
add_steps_Upsert(body, fail) ==
    /\ Len(steplog) < MaxDocs
    /\ request' = [op |-> "add_steps", body |-> body]
    /\ IF ~StepLogValid(body)
         THEN /\ storeCall' = NoCall
              /\ response' = ValidationError("add_steps")
              /\ UNCHANGED <<steplog, nextId>>
       ELSE IF ~db
         THEN /\ storeCall' = NoCall
              /\ response' = ConfigError("add_steps")
              /\ UNCHANGED <<steplog, nextId>>
       ELSE /\ storeCall' = [kind |-> "insert", coll |-> "steplog"]
            /\ IF fail
                 THEN /\ response' = ServerError("add_steps")
                      /\ UNCHANGED <<steplog, nextId>>
                 ELSE /\ steplog' = Append(
                            SelectSeq(steplog, LAMBDA d :
                                d.user # body.user \/ d.date # body.date),
                            NewDoc(StepLog(body), nextId))
                      /\ nextId' = nextId + 1
                      /\ response' = Ok("add_steps", [id |-> IdStr(nextId)])
    /\ UNCHANGED <<db, users>>

(* add_steps that stores the body before it is validated *)
add_steps_StoreFirst(body, fail) ==
    /\ Len(steplog) < MaxDocs
    /\ request' = [op |-> "add_steps", body |-> body]
    /\ IF ~db
         THEN /\ storeCall' = NoCall
              /\ response' = ConfigError("add_steps")
              /\ UNCHANGED <<steplog, nextId>>
       ELSE /\ storeCall' = [kind |-> "insert", coll |-> "steplog"]
            /\ steplog' = Append(steplog, NewDoc(StepLog(body), nextId))
            /\ nextId' = nextId + 1
            /\ response' = IF StepLogValid(body)
                             THEN Ok("add_steps", [id |-> IdStr(nextId)])
                             ELSE ValidationError("add_steps")
    /\ UNCHANGED <<db, users>>

(* POST /api/steps.  The body is validated before the handler runs; the   *)
(* guard caps the size of the collection.                                 *)
add_steps(body, fail) ==
    /\ (StepLogValid(body) /\ db /\ ~fail) => Len(steplog) < MaxDocs
    /\ request' = [op |-> "add_steps", body |-> body]
    /\ IF ~StepLogValid(body)
         THEN /\ storeCall' = NoCall
              /\ response' = ValidationError("add_steps")
              /\ UNCHANGED <<steplog, nextId>>
       ELSE IF ~db
         THEN /\ storeCall' = NoCall
              /\ response' = ConfigError("add_steps")
              /\ UNCHANGED <<steplog, nextId>>
       ELSE /\ storeCall' = [kind |-> "insert", coll |-> "steplog"]
            /\ IF fail
                 THEN /\ response' = ServerError("add_steps")
                      /\ UNCHANGED <<steplog, nextId>>
                 ELSE /\ steplog' = Append(steplog, NewDoc(StepLog(body), nextId))
                      /\ nextId' = nextId + 1
                      /\ response' = Ok("add_steps", [id |-> IdStr(nextId)])
    /\ UNCHANGED <<db, users>>

(* POST /api/users *)
create_user(body, fail) ==
    /\ (UserValid(body) /\ db /\ ~fail) => Len(users) < MaxUserDocs
    /\ request' = [op |-> "create_user", body |-> body]
    /\ IF ~UserValid(body)
         THEN /\ storeCall' = NoCall
              /\ response' = ValidationError("create_user")
              /\ UNCHANGED <<users, nextId>>
       ELSE IF ~db
         THEN /\ storeCall' = NoCall
              /\ response' = ConfigError("create_user")
              /\ UNCHANGED <<users, nextId>>
       ELSE /\ storeCall' = [kind |-> "insert", coll |-> "user"]
            /\ IF fail
                 THEN /\ response' = ServerError("create_user")
                      /\ UNCHANGED <<users, nextId>>
                 ELSE /\ users' = Append(users, NewDoc(User(body), nextId))
                      /\ nextId' = nextId + 1
                      /\ response' = Ok("create_user", [id |-> IdStr(nextId)])
    /\ UNCHANGED <<db, steplog>>

(* The filter list_steps builds (lines 103-111). *)
ListQuery(user, start_date, end_date) ==
    (IF TruthyStr(user) THEN [user |-> user] ELSE EmptyDict)
    @@ (IF TruthyDate(start_date) /\ TruthyDate(end_date)
          THEN [date |-> ("$gte" :> start_date @@ "$lte" :> end_date)]
        ELSE IF TruthyDate(start_date)
          THEN [date |-> ("$gte" :> start_date)]
        ELSE IF TruthyDate(end_date)
          THEN [date |-> ("$lte" :> end_date)]
        ELSE EmptyDict)

(* a serializer that renames the key but loses the identifier *)
serialize_doc_EmptyId(doc) ==
    IF "_id" \in DOMAIN doc
      THEN [k \in (DOMAIN doc \ {"_id"}) \cup {"id"} |->
              IF k = "id" THEN "" ELSE doc[k]]
      ELSE doc

(* serialize_doc: "_id" is popped and re-exposed as the string "id". *)
serialize_doc(doc) ==
    IF "_id" \in DOMAIN doc
      THEN [k \in (DOMAIN doc \ {"_id"}) \cup {"id"} |->
              IF k = "id" THEN IdStr(doc["_id"]) ELSE doc[k]]
      ELSE doc

(* list_steps that consumes what it returns *)
list_steps_Consume(user, start_date, end_date, limit, fail) ==
    /\ request' = [op |-> "list_steps", user |-> user, start_date |-> start_date,
                    end_date |-> end_date, limit |-> limit]
    /\ IF ~db
         THEN /\ storeCall' = NoCall
              /\ response' = ConfigError("list_steps")
              /\ UNCHANGED steplog
         ELSE LET query == ListQuery(user, start_date, end_date)
                  docs == get_documents(steplog, query, limit)
              IN /\ storeCall' = [kind |-> "find", coll |-> "steplog", filter |-> query]
                 /\ response' = IF fail THEN ServerError("list_steps")
                                 ELSE Ok("list_steps",
                                         [i \in 1..Len(docs) |-> serialize_doc(docs[i])])
                 /\ steplog' = SelectSeq(steplog, LAMBDA d : ~Matches(d, query))
    /\ UNCHANGED <<db, users, nextId>>

(* GET /api/steps *)
list_steps(user, start_date, end_date, limit, fail) ==
    /\ request' = [op |-> "list_steps", user |-> user, start_date |-> start_date,
                    end_date |-> end_date, limit |-> limit]
    /\ IF ~db
         THEN /\ storeCall' = NoCall
              /\ response' = ConfigError("list_steps")
         ELSE LET query == ListQuery(user, start_date, end_date)
                  docs == get_documents(steplog, query, limit)
              IN /\ storeCall' = [kind |-> "find", coll |-> "steplog", filter |-> query]
                 /\ response' = IF fail THEN ServerError("list_steps")
                                 ELSE Ok("list_steps",
                                         [i \in 1..Len(docs) |-> serialize_doc(docs[i])])
    /\ UNCHANGED <<db, steplog, users, nextId>>

(* The $match argument leaderboard builds (lines 123-129). *)
LeaderboardMatch(start_date, end_date) ==
    IF TruthyDate(start_date) /\ TruthyDate(end_date)
      THEN [date |-> ("$gte" :> start_date @@ "$lte" :> end_date)]
    ELSE IF TruthyDate(start_date)
      THEN [date |-> ("$gte" :> start_date)]
    ELSE IF TruthyDate(end_date)
      THEN [date |-> ("$lte" :> end_date)]
    ELSE EmptyDict

(* The pipeline of lines 131-139: $match only when the match dict is non-empty. *)
Pipeline(start_date, end_date, limit) ==
    LET match == LeaderboardMatch(start_date, end_date)
    IN (IF DOMAIN match # {} THEN <<[stage |-> "$match", arg |-> match]>> ELSE <<>>)
       \o << [stage |-> "$group", arg |-> "user"],
             [stage |-> "$sort", arg |-> "total_steps"],
             [stage |-> "$limit", arg |-> limit],
             [stage |-> "$project", arg |-> "user"] >>

(* a $sum that keeps only the first entry of a group *)
RECURSIVE SumSteps_First(_, _)
SumSteps_First(docs, u) ==
    IF docs = <<>> THEN 0
    ELSE IF Head(docs).user = u THEN Head(docs).steps
    ELSE SumSteps_First(Tail(docs), u)

(* {"$sum": "$steps"} over the documents of one group *)
RECURSIVE SumSteps(_, _)
SumSteps(docs, u) ==
    IF docs = <<>> THEN 0
    ELSE (IF Head(docs).user = u THEN Head(docs).steps ELSE 0) + SumSteps(Tail(docs), u)

MatchStage(docs, arg) == SelectSeq(docs, LAMBDA d : Matches(d, arg))

(* {"$group": {"_id": "$user", "total_steps": {"$sum": "$steps"}}} *)
GroupStage(docs) ==
    { ("_id" :> docs[i].user @@ "total_steps" :> SumSteps(docs, docs[i].user)) :
        i \in 1..Len(docs) }

(* a sort in ascending order *)
SortStage_Ascending(groups) ==
    { s \in [1..Cardinality(groups) -> groups] :
        /\ \A i, j \in DOMAIN s : i # j => s[i] # s[j]
        /\ \A i, j \in DOMAIN s : i < j => s[i].total_steps <= s[j].total_steps }

(* {"$sort": {"total_steps": -1}}: any order of the groups with non-increasing *)
(* totals; the order among equal totals is the engine's choice.               *)
SortStage(groups) ==
    { s \in [1..Cardinality(groups) -> groups] :
        /\ \A i, j \in DOMAIN s : i # j => s[i] # s[j]
        /\ \A i, j \in DOMAIN s : i < j => s[i].total_steps >= s[j].total_steps }

LimitStage(rows, n) == Take(rows, n)

(* {"$project": {"user": "$_id", "total_steps": 1, "_id": 0}} *)
ProjectStage(rows) ==
    [i \in 1..Len(rows) |-> [user |-> rows[i]["_id"], total_steps |-> rows[i].total_steps]]

(* The store rejects a $limit that is not positive. *)
PipelineAccepted(pipeline) ==
    \A i \in DOMAIN pipeline : pipeline[i].stage = "$limit" => pipeline[i].arg >= 1

(* db["steplog"].aggregate(pipeline): the possible result lists. *)
Aggregate(coll, pipeline) ==
    LET hasMatch == pipeline[1].stage = "$match"
        docs == IF hasMatch THEN MatchStage(coll, pipeline[1].arg) ELSE coll
        limit == pipeline[Len(pipeline) - 1].arg
    IN { ProjectStage(LimitStage(s, limit)) : s \in SortStage(GroupStage(docs)) }

(* LeaderboardRow(user=r["user"], total_steps=int(r["total_steps"])) *)
LeaderboardRow(r) == [user |-> r.user, total_steps |-> r.total_steps]

(* GET /api/leaderboard *)
leaderboard(start_date, end_date, limit, fail) ==
    /\ request' = [op |-> "leaderboard", start_date |-> start_date,
                    end_date |-> end_date, limit |-> limit]
    /\ IF ~db
         THEN /\ storeCall' = NoCall
              /\ response' = ConfigError("leaderboard")
         ELSE LET pipeline == Pipeline(start_date, end_date, limit)
              IN /\ storeCall' = [kind |-> "aggregate", coll |-> "steplog",
                                   pipeline |-> pipeline]
                 /\ IF fail \/ ~PipelineAccepted(pipeline)
                      THEN response' = ServerError("leaderboard")
                      ELSE \E results \in Aggregate(steplog, pipeline) :
                             response' = Ok("leaderboard",
                                 [i \in 1..Len(results) |-> LeaderboardRow(results[i])])
    /\ UNCHANGED <<db, steplog, users, nextId>>

(* The collections the store lists: those that hold a document, and others *)
(* of the same database.                                                   *)
CollectionNames(extra) ==
    (IF steplog # <<>> THEN <<"steplog">> ELSE <<>>)
    \o (IF users # <<>> THEN <<"user">> ELSE <<>>)
    \o [i \in 1..extra |-> ToString(i)]

ErrLens == {0, ErrTrunc, ErrTrunc + 1, MaxErrLen}
ErrMsgs == { [i \in 1..n |-> "e"] : n \in ErrLens }
ExtraCounts == {0, CollCap - 1, MaxExtraColls}

(* test_database that reports the whole error message *)
test_database_NoTruncation(raises, msg, extra, envUrl, envName) ==
    /\ request' = [op |-> "test"]
    /\ storeCall' = IF ~db THEN NoCall
                     ELSE IF raises
                       THEN [kind |-> "list_collection_names", raises |-> TRUE,
                             msg |-> msg, names |-> <<>>]
                       ELSE [kind |-> "list_collection_names", raises |-> FALSE,
                             msg |-> <<>>, names |-> CollectionNames(extra)]
    /\ response' = Ok("test",
         [backend |-> "Running",
          database |->
             IF ~db THEN [text |-> "Available but not initialized", err |-> <<>>]
             ELSE IF raises
               THEN [text |-> "Connected but Error: ", err |-> msg]
               ELSE [text |-> "Connected & Working", err |-> <<>>],
          database_url |-> IF envUrl THEN "Set" ELSE "Not Set",
          database_name |-> IF envName THEN "Set" ELSE "Not Set",
          connection_status |-> IF db THEN "Connected" ELSE "Not Connected",
          collections |-> IF db /\ ~raises THEN Take(CollectionNames(extra), CollCap)
                          ELSE <<>>])
    /\ UNCHANGED <<db, steplog, users, nextId>>

(* GET /test.  `raises` and `msg`: whether list_collection_names raises and *)
(* with which message; envUrl, envName: whether DATABASE_URL and            *)
(* DATABASE_NAME are set.  The last two assignments (lines 57-58) overwrite *)
(* database_url and database_name in every case.                            *)
test_database(raises, msg, extra, envUrl, envName) ==
    /\ request' = [op |-> "test"]
    /\ storeCall' = IF ~db THEN NoCall
                     ELSE IF raises
                       THEN [kind |-> "list_collection_names", raises |-> TRUE,
                             msg |-> msg, names |-> <<>>]
                       ELSE [kind |-> "list_collection_names", raises |-> FALSE,
                             msg |-> <<>>, names |-> CollectionNames(extra)]
    /\ response' = Ok("test",
         [backend |-> "Running",
          database |->
             IF ~db THEN [text |-> "Available but not initialized", err |-> <<>>]
             ELSE IF raises
               THEN [text |-> "Connected but Error: ", err |-> Take(msg, ErrTrunc)]
               ELSE [text |-> "Connected & Working", err |-> <<>>],
          database_url |-> IF envUrl THEN "Set" ELSE "Not Set",
          database_name |-> IF envName THEN "Set" ELSE "Not Set",
          connection_status |-> IF db THEN "Connected" ELSE "Not Connected",
          collections |-> IF db /\ ~raises THEN Take(CollectionNames(extra), CollCap)
                          ELSE <<>>])
    /\ UNCHANGED <<db, steplog, users, nextId>>

----------------------------------------------------------------------------
(* Every route, with a reduced set of submissions and query parameters. *)
RouteStepLogs ==
    MalformedStepLogs
    \cup { Raw(AllStepLogKeys, {}, "alice", MaxSteps, 1),
           Raw(RequiredStepLog, {}, "bob", 0, MaxDate) }

Next ==
    \/ read_root
    \/ \E envUrl \in BOOLEAN, envName \in BOOLEAN :
          \/ \E msg \in ErrMsgs : test_database(TRUE, msg, 0, envUrl, envName)
          \/ \E extra \in ExtraCounts : test_database(FALSE, <<>>, extra, envUrl, envName)
    \/ \E b \in RouteStepLogs, f \in BOOLEAN : add_steps(b, f)
    \/ \E b \in RawUsers, f \in BOOLEAN : create_user(b, f)
    \/ \E u \in {NoUser, "alice"}, s \in {NoDate, 1}, e \in {NoDate, MaxDate},
          f \in BOOLEAN : list_steps(u, s, e, MaxLimit, f)
    \/ \E s \in {NoDate, 1}, e \in {NoDate, MaxDate}, l \in {0, 1},
          f \in BOOLEAN : leaderboard(s, e, l, f)

Spec == Init /\ [][Next]_vars

(* The data routes over a configured store. *)
InitData == Init /\ db = TRUE

(* Listing: every user, date and limit parameter of list_steps, over       *)
(* entries of alice on every date and of bob on the first one, with and    *)
(* without a note; the leaderboard with the same date parameters.          *)
ListStepLogs ==
    { Raw(AllStepLogKeys, {}, "alice", MaxSteps, d) : d \in Dates }
    \cup { Raw(AllStepLogKeys, {}, "bob", 0, 1),
           Raw(RequiredStepLog, {}, "alice", 0, 1) }

NextList ==
    \/ \E b \in ListStepLogs, f \in BOOLEAN : add_steps(b, f)
    \/ \E u \in UserQueryValues, s \in DateQueryValues, e \in DateQueryValues,
          l \in ListLimits : list_steps(u, s, e, l, FALSE)
    \/ \E s \in DateQueryValues, e \in DateQueryValues :
          leaderboard(s, e, MaxLimit, FALSE)

SpecList == InitData /\ [][NextList]_vars

(* Leaderboard: every date and limit parameter, over entries of alice on   *)
(* every date and of bob with every step count.                            *)
BoardStepLogs ==
    { Raw(AllStepLogKeys, {}, "alice", MaxSteps, d) : d \in Dates }
    \cup { Raw(AllStepLogKeys, {}, "bob", n, 1) : n \in StepCounts }

NextBoard ==
    \/ \E b \in BoardStepLogs, f \in BOOLEAN : add_steps(b, f)
    \/ \E s \in DateQueryValues, e \in DateQueryValues, l \in LeaderLimits,
          f \in BOOLEAN : leaderboard(s, e, l, f)

SpecBoard == InitData /\ [][NextBoard]_vars

----------------------------------------------------------------------------
(* Vocabulary of the properties *)

DataOps == {"add_steps", "list_steps", "leaderboard", "create_user"}
CreateOps == {"add_steps", "create_user"}
ReadOps == {"root", "test", "list_steps", "leaderboard"}

(* The date rule in the words of the specification: both bounds inclusive, *)
(* an absent bound does not constrain.                                     *)
InBounds(d, start_date, end_date) ==
    /\ (start_date # NoDate => start_date <= d)
    /\ (end_date # NoDate => d <= end_date)

(* Indices of the stored entries of user u within the bounds *)
EntriesOf(u, start_date, end_date) ==
    { i \in 1..Len(steplog) :
        steplog[i].user = u /\ InBounds(steplog[i].date, start_date, end_date) }

RECURSIVE SumOver(_)
SumOver(I) ==
    IF I = {} THEN 0
    ELSE LET i == CHOOSE x \in I : TRUE IN steplog[i].steps + SumOver(I \ {i})

BodyInvalid(req) ==
    \/ req.op = "add_steps" /\ ~StepLogValid(req.body)
    \/ req.op = "create_user" /\ ~UserValid(req.body)

Rows == response.body

----------------------------------------------------------------------------
(* C1, as stated: with no store handle, every data operation ends with the *)
(* configuration error, for every input, and makes no store call.          *)
C1_ConfigErrorEveryInput ==
    (~db /\ request.op \in DataOps) =>
        /\ response = ConfigError(request.op)
        /\ storeCall = NoCall

(* C1, amended: with no store handle, every data operation whose input     *)
(* passes validation ends with the configuration error (500, "Database not *)
(* configured"), a create whose body fails validation ends with the        *)
(* validation error; in both cases there is no body, no store call, and    *)
(* the store holds nothing.                                                *)
C1_ConfigErrorValidInput ==
    (~db /\ request.op \in DataOps) =>
        /\ response = IF BodyInvalid(request) THEN ValidationError(request.op)
                      ELSE ConfigError(request.op)
        /\ response.body = <<>>
        /\ storeCall = NoCall
        /\ steplog = <<>> /\ users = <<>> /\ nextId = 1

C1_Witness ==
    /\ ~db
    /\ request.op = "add_steps"
    /\ StepLogValid(request.body)
    /\ response.status = 500
    /\ response.detail = "Database not configured"

(* C2: a successful leaderboard lists each user at most once, with         *)
(* total_steps equal to the sum of steps over the stored entries of that   *)
(* user within the inclusive bounds, and lists no user without such an     *)
(* entry.                                                                  *)
C2_LeaderboardSums ==
    (response.op = "leaderboard" /\ response.status = 200) =>
        /\ \A i \in DOMAIN Rows :
             LET I == EntriesOf(Rows[i].user, request.start_date, request.end_date)
             IN /\ I # {}
                /\ Rows[i].total_steps = SumOver(I)
        /\ \A i, j \in DOMAIN Rows : i # j => Rows[i].user # Rows[j].user

C2_Witness ==
    /\ response.op = "leaderboard" /\ response.status = 200
    /\ request.start_date # NoDate /\ request.end_date # NoDate
    /\ \E i \in DOMAIN Rows :
         LET I == EntriesOf(Rows[i].user, request.start_date, request.end_date)
         IN /\ Rows[i].total_steps = 2
            /\ Cardinality(I) = 2
            /\ \E k \in I : steplog[k].date = request.start_date
            /\ \E k \in I : steplog[k].date = request.end_date

(* Stored entries of the same user and date as entry k *)
SameUserDate(k) ==
    { i \in 1..Len(steplog) :
        steplog[i].user = steplog[k].user /\ steplog[i].date = steplog[k].date }

(* The list request asks for the user and the single date of entry k *)
ListsFor(k) ==
    /\ response.op = "list_steps" /\ response.status = 200
    /\ request.user = steplog[k].user
    /\ request.start_date = steplog[k].date
    /\ request.end_date = steplog[k].date

(* Some returned record is the newest entry: its steps, date and note, and *)
(* its id, a non-empty string that differs from every id issued before.    *)
ReturnsNewest ==
    LET k == Len(steplog)
    IN \E r \in DOMAIN Rows :
         /\ Rows[r].steps = steplog[k].steps
         /\ Rows[r].date = steplog[k].date
         /\ Rows[r].note = steplog[k].note
         /\ Rows[r].user = steplog[k].user
         /\ Rows[r].id = IdStr(steplog[k]["_id"])
         /\ Rows[r].id # ""
         /\ "_id" \notin DOMAIN Rows[r]
         /\ \A j \in 1..(k - 1) : IdStr(steplog[j]["_id"]) # Rows[r].id

(* A successful create stores the submitted user, steps, date and note     *)
(* (no note when none was sent) under the id it returns.                   *)
CreateStoresSubmission ==
    (response'.op = "add_steps" /\ response'.status = 200 /\ steplog' # steplog) =>
        LET new == steplog'[Len(steplog')]
        IN /\ new.user = request'.body.user
           /\ new.steps = request'.body.steps
           /\ new.date = request'.body.date
           /\ new.note = (IF "note" \in request'.body.present
                            THEN request'.body.note ELSE NoNote)
           /\ IdStr(new["_id"]) = response'.body.id

(* C3, as stated: after a create, a list filtered to the entry's user and  *)
(* date returns a record with the entry's steps, date and note and a fresh *)
(* non-empty id.                                                           *)
C3_CreateThenListAnyLimit ==
    (steplog # <<>> /\ ListsFor(Len(steplog))) => ReturnsNewest

(* C3, amended: a create stores the submission under the id it returns,    *)
(* and a later list filtered to the newest entry's user and date returns   *)
(* a record with its steps, date and note and its id, a non-empty string   *)
(* distinct from every earlier id, provided the stored entries of that     *)
(* user and date are no more than the list's limit.                        *)
C3_CreateThenListWithinLimit ==
    /\ [][CreateStoresSubmission]_vars
    /\ [](( /\ steplog # <<>>
            /\ ListsFor(Len(steplog))
            /\ Cardinality(SameUserDate(Len(steplog))) <= request.limit )
          => ReturnsNewest)

C3_Witness ==
    /\ Len(steplog) = 2
    /\ ListsFor(2)
    /\ Cardinality(SameUserDate(2)) = 2
    /\ request.limit = 2
    /\ steplog[1].steps # steplog[2].steps
    /\ steplog[2].note = NoNote
    /\ Len(Rows) = 2
    /\ ReturnsNewest

(* The documents a date condition of a store call lets through, as a set   *)
(* of dates; a call without a date condition lets every date through.      *)
DatesOfFilter(q) ==
    { d \in Dates : "date" \in DOMAIN q => DateCond(d, q.date) }

DatesOfPipeline(pipeline) ==
    IF pipeline[1].stage = "$match" THEN DatesOfFilter(pipeline[1].arg) ELSE Dates

DatesInBounds(start_date, end_date) ==
    { d \in Dates : InBounds(d, start_date, end_date) }

(* Users the list request lets through: all when the filter is unset *)
UserWanted(u) == request.user \in {NoUser, ""} \/ u = request.user

(* C4: list and leaderboard send the store the same date constraint, the   *)
(* inclusive one of the request's bounds (none without bounds); every      *)
(* listed record lies within the bounds, and an entry within them, also    *)
(* one dated exactly on a bound, is listed unless the limit cuts it off;   *)
(* a user with an entry within the bounds is on an untruncated             *)
(* leaderboard.                                                            *)
C4_InclusiveDateBounds ==
    /\ (request.op = "list_steps" /\ db) =>
          /\ DatesOfFilter(storeCall.filter)
               = DatesInBounds(request.start_date, request.end_date)
          /\ ("date" \in DOMAIN storeCall.filter
                <=> (request.start_date # NoDate \/ request.end_date # NoDate))
          /\ storeCall.filter
               = ListQuery(request.user, NoDate, NoDate)
                   @@ LeaderboardMatch(request.start_date, request.end_date)
    /\ (request.op = "leaderboard" /\ db) =>
          /\ DatesOfPipeline(storeCall.pipeline)
               = DatesInBounds(request.start_date, request.end_date)
          /\ (storeCall.pipeline[1].stage = "$match"
                <=> (request.start_date # NoDate \/ request.end_date # NoDate))
    /\ (response.op = "list_steps" /\ response.status = 200) =>
          /\ \A r \in DOMAIN Rows :
               InBounds(Rows[r].date, request.start_date, request.end_date)
          /\ Len(Rows) < request.limit =>
               \A k \in DOMAIN steplog :
                 ( /\ UserWanted(steplog[k].user)
                   /\ InBounds(steplog[k].date, request.start_date, request.end_date) )
                 => \E r \in DOMAIN Rows : Rows[r].id = IdStr(steplog[k]["_id"])
    /\ (response.op = "leaderboard" /\ response.status = 200) =>
          /\ \A r \in DOMAIN Rows :
               EntriesOf(Rows[r].user, request.start_date, request.end_date) # {}
          /\ Len(Rows) < request.limit =>
               \A k \in DOMAIN steplog :
                 InBounds(steplog[k].date, request.start_date, request.end_date)
                 => \E r \in DOMAIN Rows : Rows[r].user = steplog[k].user

(* A list with both bounds on one date returns the entry of that date and  *)
(* leaves out a stored entry of another date.                              *)
C4_Witness ==
    /\ response.op = "list_steps" /\ response.status = 200
    /\ request.start_date # NoDate /\ request.start_date = request.end_date
    /\ request.limit = MaxLimit
    /\ Len(steplog) = 2 /\ Len(Rows) = 1
    /\ Rows[1].date = request.start_date
    /\ \E k \in DOMAIN steplog :
         /\ steplog[k].date # request.start_date
         /\ UserWanted(steplog[k].user)

(* Users with an entry within the bounds of the request *)
Ranked ==
    { u \in UserNames : EntriesOf(u, request.start_date, request.end_date) # {} }

TotalOf(u) == SumOver(EntriesOf(u, request.start_date, request.end_date))

(* C5: a successful leaderboard has at most limit rows, exactly            *)
(* min(limit, number of users with entries), in non-increasing order of    *)
(* total_steps, and no user left out has a total above that of a row.      *)
C5_LimitAndOrder ==
    (response.op = "leaderboard" /\ response.status = 200) =>
        /\ Len(Rows) <= request.limit
        /\ Len(Rows) = Min(request.limit, Cardinality(Ranked))
        /\ \A i \in 1..(Len(Rows) - 1) : Rows[i].total_steps >= Rows[i + 1].total_steps
        /\ \A u \in Ranked :
             (\A r \in DOMAIN Rows : Rows[r].user # u)
             => \A r \in DOMAIN Rows : Rows[r].total_steps >= TotalOf(u)

C5_Witness ==
    /\ response.op = "leaderboard" /\ response.status = 200
    /\ request.limit = 1
    /\ Cardinality(Ranked) = 2
    /\ Len(Rows) = 1
    /\ \E u \in Ranked : TotalOf(u) < Rows[1].total_steps

(* A successful create step log appends one record and keeps the others *)
CreateAppendsOne ==
    (response'.op = "add_steps" /\ response'.status = 200 /\ response' # response) =>
        /\ Len(steplog') = Len(steplog) + 1
        /\ SubSeq(steplog', 1, Len(steplog)) = steplog
        /\ nextId' = nextId + 1

(* Any other step leaves the step logs as they are *)
OnlyCreateWrites ==
    steplog' # steplog => (response'.op = "add_steps" /\ response'.status = 200)

(* C6: a successful create step log appends exactly one record and keeps   *)
(* every stored record, whether or not the user and date are stored        *)
(* already, and nothing else changes the step logs; the store holds as     *)
(* many step logs as creates have succeeded (ids issued); the totals of an *)
(* untruncated leaderboard add up to the steps of all entries within the   *)
(* bounds, duplicates counted each time.                                   *)
C6_DuplicatesAccumulate ==
    /\ [][CreateAppendsOne /\ OnlyCreateWrites]_vars
    /\ [](Len(steplog) + Len(users) = nextId - 1)
    /\ []((response.op = "leaderboard" /\ response.status = 200
             /\ Len(Rows) = Cardinality(Ranked))
          => SumSeq([r \in DOMAIN Rows |-> Rows[r].total_steps])
               = SumOver({ k \in DOMAIN steplog :
                    InBounds(steplog[k].date, request.start_date, request.end_date) }))

(* Two stored entries of one user and date, summed by the leaderboard *)
C6_Witness ==
    /\ Len(steplog) = 2
    /\ steplog[1].user = steplog[2].user /\ steplog[1].date = steplog[2].date
    /\ steplog[1].steps = 1 /\ steplog[2].steps = 1
    /\ response.op = "leaderboard" /\ response.status = 200
    /\ Len(Rows) = 1 /\ Rows[1].total_steps = 2

(* C7: the diagnostics request always has a response, with status 200:     *)
(* without a store handle it reports the store as not initialized; when    *)
(* the collection listing raises, it reports the error message cut to its  *)
(* first 50 characters; when the listing works, it reports the first 10    *)
(* collection names.                                                       *)
C7_DiagnosticsNeverFails ==
    /\ ENABLED test_database(TRUE, <<>>, 0, TRUE, TRUE)
    /\ request.op = "test" =>
         /\ response.op = "test" /\ response.status = 200
         /\ Len(response.body.collections) <= CollCap
         /\ Len(response.body.database.err) <= ErrTrunc
         /\ ~db => /\ response.body.database.text = "Available but not initialized"
                   /\ response.body.collections = <<>>
                   /\ storeCall = NoCall
         /\ (db /\ storeCall.raises) =>
               /\ response.body.database.text = "Connected but Error: "
               /\ response.body.database.err
                    = SubSeq(storeCall.msg, 1, Min(ErrTrunc, Len(storeCall.msg)))
               /\ response.body.collections = <<>>
         /\ (db /\ ~storeCall.raises) =>
               /\ response.body.database.text = "Connected & Working"
               /\ response.body.collections
                    = SubSeq(storeCall.names, 1, Min(CollCap, Len(storeCall.names)))

(* The listing raised with a message longer than 50 characters *)
C7_Witness ==
    /\ request.op = "test" /\ db
    /\ storeCall.raises
    /\ Len(storeCall.msg) > ErrTrunc
    /\ Len(response.body.database.err) = ErrTrunc
    /\ response.status = 200

(* C8: a create step log or create user whose body fails validation ends   *)
(* with the validation error, makes no store call, and leaves both         *)
(* collections and the id source as they were.                             *)
C8_InvalidNeverReachesStore ==
    [][(request'.op \in CreateOps /\ BodyInvalid(request')) =>
          /\ response' = ValidationError(request'.op)
          /\ storeCall' = NoCall
          /\ steplog' = steplog /\ users' = users /\ nextId' = nextId]_vars

(* An invalid submission refused by a configured, non-empty store *)
C8_Witness ==
    /\ db /\ steplog # <<>>
    /\ request.op = "add_steps" /\ ~StepLogValid(request.body)
    /\ response.status = 422
    /\ storeCall = NoCall

(* C9: a list called with a user value returns only records of that user   *)
(* within the date bounds, at most limit of them, and an empty sequence    *)
(* (not an error) when nothing matches.                                    *)
C9_ListOnlyThatUser ==
    (response.op = "list_steps" /\ request.user # NoUser /\ db
       /\ response.detail # "Internal Server Error") =>
        /\ response.status = 200
        /\ Len(Rows) <= request.limit
        /\ \A r \in DOMAIN Rows :
             /\ Rows[r].user = request.user
             /\ InBounds(Rows[r].date, request.start_date, request.end_date)
        /\ EntriesOf(request.user, request.start_date, request.end_date) = {}
             => Rows = <<>>

(* C10: no request changes the store handle, and a read request (root,     *)
(* diagnostics, list, leaderboard), whatever its parameters and outcome,   *)
(* leaves both collections and the id source as they were.                 *)
C10_ReadsChangeNothing ==
    [][/\ db' = db
       /\ request'.op \in ReadOps =>
            (steplog' = steplog /\ users' = users /\ nextId' = nextId)]_vars

(* A list that failed in the store, over a store that holds records *)
C10_Witness ==
    /\ db /\ steplog # <<>> /\ users # <<>>
    /\ response.op = "list_steps"
    /\ response.status = 500
    /\ storeCall.kind = "find"
====
